---- MODULE Spec2Model ----
(***************************************************************************)
(* Model of xjson.                                                         *)
(*                                                                         *)
(* Spec        highlightJSON (internal/ui): a single left-to-right scan of *)
(*             the input bytes that writes every byte to a strings.Builder *)
(*             and inserts ANSI SGR sequences around the tokens it         *)
(*             recognises.                                                 *)
(* SpecCalls   highlightJSON called several times in a row.                *)
(* SpecApp     the Bubble Tea model App (internal/ui): Update, the fetch   *)
(*             commands and the item navigation.                           *)
(* SpecAuth    Authenticator.GetToken (internal/api).                      *)
(* SpecRequest Client.doRequest (internal/api).                            *)
(* SpecConfig  main (main.go) and the config file (config).                *)
(*                                                                         *)
(* Each specification moves its own variables and leaves the others at     *)
(* their idle values.                                                      *)
(*                                                                         *)
(* A byte is a one-character string; ESC stands for the byte 0x1b, which   *)
(* no modelled input contains. Positions are the 0-based indices of the Go *)
(* code: At(k) is s[k].                                                    *)
(***************************************************************************)
EXTENDS Integers, Sequences, FiniteSets, Bags, TLC

VARIABLES s, i, result, inString, afterColon, pc,   \* highlightJSON
          callLog,                                    \* observer of SpecCalls
          app,                                        \* the App model
          auth,                                       \* GetToken
          req,                                        \* doRequest
          conf                                        \* main and the config file

hlVars == <<s, i, result, inString, afterColon, pc>>
vars == <<hlVars, callLog, app, auth, req, conf>>

(* what the actions of each specification leave alone *)
hlRest == <<callLog, app, auth, req, conf>>
appRest == <<hlVars, callLog, auth, req, conf>>
authRest == <<hlVars, callLog, app, req, conf>>
reqRest == <<hlVars, callLog, app, auth, conf>>
confRest == <<hlVars, callLog, app, auth, req>>

(* idle values *)
NoCalls == [n |-> 0, noted |-> FALSE, input |-> <<>>, output |-> <<>>]
NoApp == [mode |-> "idle"]
NoAuth == [pc |-> "idle"]
NoReq == [pc |-> "idle"]
NoConf == [pc |-> "idle"]
HlIdle ==
  /\ s = <<>> /\ i = 0 /\ result = <<>>
  /\ inString = FALSE /\ afterColon = FALSE /\ pc = "idle"

----------------------------------------------------------------------------
(* Bounds of the input families *)

MaxStrLen == 5
MaxNumLen == 4
MaxWords == 3
MaxValLen == 5
MaxCallLen == 2
MaxCalls == 3
MaxItems == 2
MaxInFlight == 2
MaxTime == 3
MaxHeaderLen == 2

----------------------------------------------------------------------------
(* Bytes *)

ESC == "ESC"
Quote == "\""
Backslash == "\\"
Digits == {"0", "1", "2", "3", "4", "5", "6", "7", "8", "9"}
NumStart == Digits \cup {"-", "."}
NumContNoExponent == Digits \cup {"."}
NumCont == Digits \cup {".", "e", "E", "+", "-"}
LookaheadSpace == {" ", "\n", "\t"}

(* The SGR sequences written by highlightJSON *)
Sgr(code) == <<ESC, "[">> \o code \o <<"m">>
Colour(n) == Sgr(<<"3", "8", ";", "5", ";">> \o n)
ResetSeq == Sgr(<<"0">>)
BoldSeq == Sgr(<<"1">>)
KeyColour == Colour(<<"2", "0", "3">>)
StringColour == Colour(<<"1", "1", "4">>)
ColonColour == Colour(<<"2", "4", "5">>)
NumberColour == Colour(<<"2", "1", "5">>)
TrueColour == Colour(<<"7", "9">>)
FalseColour == Colour(<<"2", "0", "4">>)
NullColour == Colour(<<"1", "3", "9">>)
BraceColour == Colour(<<"2", "2", "2">>)
BracketColour == Colour(<<"1", "4", "7">>)

WordTrue == <<"t", "r", "u", "e">>
WordFalse == <<"f", "a", "l", "s", "e">>
WordNull == <<"n", "u", "l", "l">>

----------------------------------------------------------------------------
(* Inputs *)

RECURSIVE SeqsUpTo(_, _)
SeqsUpTo(A, n) ==
  IF n = 0 THEN {<<>>}
  ELSE LET r == SeqsUpTo(A, n - 1)
       IN r \cup {Append(x, a) : x \in r, a \in A}

RECURSIVE ConcatsUpTo(_, _)
ConcatsUpTo(W, n) ==
  IF n = 0 THEN {<<>>}
  ELSE LET r == ConcatsUpTo(W, n - 1)
       IN r \cup {x \o w : x \in r, w \in W}

StrAlphabet == {Quote, Backslash, ":", " ", "a", "{"}
NumAlphabet == {"1", "-", ".", "e", ":", ",", "["}
ValAlphabet == {":", "1", " ", Quote}
Words == {WordTrue, WordFalse, WordNull, <<"t", "r", "u">>,
          <<"f", "a", "l", "s">>, <<"n">>, <<"1">>,
          <<":">>, <<",">>, <<"[">>, <<"]">>, <<Quote>>}

(* the inputs named by the specification's testable properties *)
ExKeyValue == <<"{", Quote, "a", Quote, ":", " ", Quote, "b", Quote, "}">>
ExEscaped == <<Quote, "a", Backslash, Quote, "b", Quote>>
ExEscapedKey == <<"{", Quote, "a", Backslash, Quote, "b", Quote, ":", " ", "1", "}">>
ExUnterminated == <<"{", Quote, "a", Quote, ":", " ", Quote, "b">>
ExNumber == <<"-", "1", "2", ".", "5", "e", "+", "3">>
ExArray == <<"[", "1", ",", "2", ",", "3", "]">>
ExLiterals == <<"[">> \o WordTrue \o <<",">> \o WordFalse \o <<",">> \o WordNull \o <<"]">>
ExTruncated == <<"{", Quote, "a", Quote, ":", " ", "t", "r", "u", "}">>
ExSpacedKey == <<Quote, "k", Quote, " ", "\n", "\t", ":", "-", "1", ".", "5", "E", "3", ",">>
                 \o <<Quote, "t", Quote, ":">> \o WordTrue \o <<"}", "]">>

ExWellFormed == <<"{", Quote, "a", Quote, ":", " ">> \o WordTrue \o <<"}">>
ExMalformedNumber == <<":", "1", "-", "2", "+", ".", "e">>
ExStructuralInString == <<Quote, "a", ":", "b", ",", "c", Quote>>

Examples == {ExKeyValue, ExEscaped, ExEscapedKey, ExUnterminated, ExNumber,
             ExArray, ExLiterals, ExTruncated, ExSpacedKey, ExWellFormed,
             ExMalformedNumber, ExStructuralInString}

Inputs == SeqsUpTo(StrAlphabet, MaxStrLen) \cup SeqsUpTo(NumAlphabet, MaxNumLen)
            \cup SeqsUpTo(ValAlphabet, MaxValLen)
            \cup ConcatsUpTo(Words, MaxWords) \cup Examples

----------------------------------------------------------------------------
(* highlightJSON *)

At(k) == s[k + 1]

(* s[a:b] *)
Slice(a, b) == SubSeq(s, a + 1, b)

(* the key lookahead of the opening quote at index o: the first '"' after  *)
(* o, then the first byte after it that is not ' ', '\n' or '\t'           *)
IsKey(o) ==
  LET js == {j \in (o + 1)..(Len(s) - 1) : At(j) = Quote}
  IN IF js = {} THEN FALSE
     ELSE LET j == CHOOSE x \in js : \A y \in js : x <= y
              ks == {k \in (j + 1)..(Len(s) - 1) : At(k) \notin LookaheadSpace}
          IN IF ks = {} THEN FALSE
             ELSE LET k == CHOOSE x \in ks : \A y \in ks : x <= y
                  IN At(k) = ":"

(* the index the number sub-scan started at index o stops on *)
RECURSIVE NumEnd(_)
NumEnd(o) ==
  IF o + 1 < Len(s) /\ At(o + 1) \in NumCont THEN NumEnd(o + 1) ELSE o

(* the indices of s that the iteration at cursor i reads: s[i]; s[i-1] in  *)
(* the quote case when i > 0; s[j] and s[k] of the key lookahead; s[i+1]   *)
(* of the number sub-scan while i+1 < len(s)                               *)
LookaheadReads ==
  LET js == {j \in (i + 1)..(Len(s) - 1) : At(j) = Quote}
  IN IF js = {} THEN (i + 1)..(Len(s) - 1)
     ELSE LET j == CHOOSE x \in js : \A y \in js : x <= y
              ks == {k \in (j + 1)..(Len(s) - 1) : At(k) \notin LookaheadSpace}
          IN (i + 1)..(IF ks = {} THEN Len(s) - 1
                       ELSE CHOOSE x \in ks : \A y \in ks : x <= y)

IndexReadsUnguarded ==
  {i} \cup (IF At(i) = Quote THEN {i - 1} ELSE {})

IndexReads ==
  {i} \cup
  (IF At(i) = Quote
   THEN (IF i > 0 THEN {i - 1} ELSE {})
          \cup (IF ~(i > 0 /\ At(i - 1) = Backslash) /\ ~inString
                THEN LookaheadReads ELSE {})
   ELSE IF At(i) \in NumStart /\ ~inString /\ afterColon
   THEN {r + 1 : r \in {x \in i..NumEnd(i) : x + 1 < Len(s)}}
   ELSE {})

(* the slices <<a, b>> of s (s[a:b]) that the iteration at cursor i takes *)
SliceReads ==
  (IF At(i) = "t" /\ ~inString /\ i + 3 < Len(s) THEN {<<i, i + 4>>} ELSE {})
  \cup (IF At(i) = "f" /\ ~inString /\ i + 4 < Len(s) THEN {<<i, i + 5>>} ELSE {})
  \cup (IF At(i) = "n" /\ ~inString /\ i + 3 < Len(s) THEN {<<i, i + 4>>} ELSE {})

Init ==
  /\ s \in Inputs
  /\ i = 0
  /\ result = <<>>
  /\ inString = FALSE
  /\ afterColon = FALSE
  /\ pc = "loop"
  /\ callLog = NoCalls /\ app = NoApp /\ auth = NoAuth /\ req = NoReq
  /\ conf = NoConf

InLoop == pc = "loop" /\ i < Len(s)

QuoteEscapedCloses ==
  /\ InLoop /\ At(i) = Quote
  /\ i > 0 /\ At(i - 1) = Backslash
  /\ IF inString
       THEN /\ result' = Append(result, At(i)) \o ResetSeq
            /\ inString' = FALSE
            /\ afterColon' = FALSE
       ELSE /\ result' = (IF IsKey(i) THEN result \o KeyColour
                          ELSE result \o StringColour) \o <<At(i)>>
            /\ inString' = TRUE
            /\ UNCHANGED afterColon
  /\ i' = i + 1
  /\ UNCHANGED <<s, pc>>
  /\ UNCHANGED hlRest

QuoteEscaped ==
  /\ InLoop /\ At(i) = Quote
  /\ i > 0 /\ At(i - 1) = Backslash
  /\ result' = Append(result, At(i))
  /\ i' = i + 1
  /\ UNCHANGED <<s, inString, afterColon, pc>>
  /\ UNCHANGED hlRest

QuoteCloseKeepsFlag ==
  /\ InLoop /\ At(i) = Quote
  /\ ~(i > 0 /\ At(i - 1) = Backslash)
  /\ inString
  /\ result' = Append(result, At(i)) \o ResetSeq
  /\ inString' = FALSE
  /\ i' = i + 1
  /\ UNCHANGED <<s, afterColon, pc>>
  /\ UNCHANGED hlRest

QuoteClose ==
  /\ InLoop /\ At(i) = Quote
  /\ ~(i > 0 /\ At(i - 1) = Backslash)
  /\ inString
  /\ result' = Append(result, At(i)) \o ResetSeq
  /\ inString' = FALSE
  /\ afterColon' = FALSE
  /\ i' = i + 1
  /\ UNCHANGED <<s, pc>>
  /\ UNCHANGED hlRest

QuoteOpen ==
  /\ InLoop /\ At(i) = Quote
  /\ ~(i > 0 /\ At(i - 1) = Backslash)
  /\ ~inString
  /\ inString' = TRUE
  /\ result' = (IF IsKey(i) THEN result \o KeyColour ELSE result \o StringColour)
                 \o <<At(i)>>
  /\ i' = i + 1
  /\ UNCHANGED <<s, afterColon, pc>>
  /\ UNCHANGED hlRest

Colon ==
  /\ InLoop /\ At(i) = ":" /\ ~inString
  /\ result' = result \o ColonColour \o <<At(i)>> \o ResetSeq
  /\ afterColon' = TRUE
  /\ i' = i + 1
  /\ UNCHANGED <<s, inString, pc>>
  /\ UNCHANGED hlRest

Number ==
  /\ InLoop /\ At(i) \in NumStart
  /\ ~inString /\ afterColon
  /\ result' = result \o NumberColour \o Slice(i, NumEnd(i) + 1) \o ResetSeq
  /\ afterColon' = FALSE
  /\ i' = NumEnd(i) + 1
  /\ UNCHANGED <<s, inString, pc>>
  /\ UNCHANGED hlRest

NumberPlain ==
  /\ InLoop /\ At(i) \in NumStart
  /\ ~(~inString /\ afterColon)
  /\ result' = Append(result, At(i))
  /\ i' = i + 1
  /\ UNCHANGED <<s, inString, afterColon, pc>>
  /\ UNCHANGED hlRest

IsTrueNotAtEnd ==
  At(i) = "t" /\ ~inString /\ i + 4 < Len(s) /\ Slice(i, i + 4) = WordTrue
IsNullPrefix == At(i) = "n" /\ ~inString /\ i + 3 < Len(s)

IsTrue == At(i) = "t" /\ ~inString /\ i + 3 < Len(s) /\ Slice(i, i + 4) = WordTrue
IsFalse == At(i) = "f" /\ ~inString /\ i + 4 < Len(s) /\ Slice(i, i + 5) = WordFalse
IsNull == At(i) = "n" /\ ~inString /\ i + 3 < Len(s) /\ Slice(i, i + 4) = WordNull

LitTrue ==
  /\ InLoop /\ IsTrue
  /\ result' = result \o TrueColour \o WordTrue \o ResetSeq
  /\ i' = i + 3 + 1
  /\ afterColon' = FALSE
  /\ UNCHANGED <<s, inString, pc>>
  /\ UNCHANGED hlRest

LitFalseSkip ==
  /\ InLoop /\ IsFalse
  /\ result' = result \o FalseColour \o WordFalse \o ResetSeq
  /\ i' = i + 3 + 1
  /\ afterColon' = FALSE
  /\ UNCHANGED <<s, inString, pc>>
  /\ UNCHANGED hlRest

LitFalse ==
  /\ InLoop /\ IsFalse
  /\ result' = result \o FalseColour \o WordFalse \o ResetSeq
  /\ i' = i + 4 + 1
  /\ afterColon' = FALSE
  /\ UNCHANGED <<s, inString, pc>>
  /\ UNCHANGED hlRest

LitNull ==
  /\ InLoop /\ IsNull
  /\ result' = result \o NullColour \o WordNull \o ResetSeq
  /\ i' = i + 3 + 1
  /\ afterColon' = FALSE
  /\ UNCHANGED <<s, inString, pc>>
  /\ UNCHANGED hlRest

Brace ==
  /\ InLoop /\ At(i) \in {"{", "}"}
  /\ result' = result \o BraceColour \o BoldSeq \o <<At(i)>> \o ResetSeq
  /\ afterColon' = (IF At(i) = "{" THEN FALSE ELSE afterColon)
  /\ i' = i + 1
  /\ UNCHANGED <<s, inString, pc>>
  /\ UNCHANGED hlRest

Bracket ==
  /\ InLoop /\ At(i) \in {"[", "]"}
  /\ result' = result \o BracketColour \o BoldSeq \o <<At(i)>> \o ResetSeq
  /\ afterColon' = (IF At(i) = "[" THEN FALSE ELSE afterColon)
  /\ i' = i + 1
  /\ UNCHANGED <<s, inString, pc>>
  /\ UNCHANGED hlRest

Comma ==
  /\ InLoop /\ At(i) = "," /\ ~inString
  /\ result' = Append(result, At(i))
  /\ afterColon' = FALSE
  /\ i' = i + 1
  /\ UNCHANGED <<s, inString, pc>>
  /\ UNCHANGED hlRest

Default ==
  /\ InLoop
  /\ At(i) # Quote
  /\ ~(At(i) = ":" /\ ~inString)
  /\ At(i) \notin NumStart
  /\ ~IsTrue /\ ~IsFalse /\ ~IsNull
  /\ At(i) \notin {"{", "}", "[", "]"}
  /\ ~(At(i) = "," /\ ~inString)
  /\ result' = Append(result, At(i))
  /\ i' = i + 1
  /\ UNCHANGED <<s, inString, afterColon, pc>>
  /\ UNCHANGED hlRest

Return ==
  /\ pc = "loop" /\ ~(i < Len(s))
  /\ pc' = "done"
  /\ UNCHANGED <<s, i, result, inString, afterColon>>
  /\ UNCHANGED hlRest

Next ==
  \/ QuoteEscaped
  \/ QuoteClose
  \/ QuoteOpen
  \/ Colon
  \/ Number
  \/ NumberPlain
  \/ LitTrue
  \/ LitFalse
  \/ LitNull
  \/ Brace
  \/ Bracket
  \/ Comma
  \/ Default
  \/ Return

Spec == Init /\ [][Next]_vars

----------------------------------------------------------------------------
(* highlightJSON called again and again. Every call starts from the        *)
(* function's prologue: result, inString, afterColon and i are locals.     *)
(* callLog counts the calls and may note the input and output of one       *)
(* finished call, to compare later calls with.                             *)

CallAlphabet == {Quote, ":", "1"}
CallInputs == SeqsUpTo(CallAlphabet, MaxCallLen) \cup Examples

EnterKeepsFlag(x) ==
  /\ s' = x
  /\ i' = 0
  /\ result' = <<>>
  /\ inString' = FALSE
  /\ pc' = "loop"
  /\ UNCHANGED afterColon

(* the call highlightJSON(x) *)
Enter(x) ==
  /\ s' = x
  /\ i' = 0
  /\ result' = <<>>
  /\ inString' = FALSE
  /\ afterColon' = FALSE
  /\ pc' = "loop"

InitCalls ==
  /\ s \in CallInputs
  /\ i = 0
  /\ result = <<>>
  /\ inString = FALSE
  /\ afterColon = FALSE
  /\ pc = "loop"
  /\ callLog = [NoCalls EXCEPT !.n = 1]
  /\ app = NoApp /\ auth = NoAuth /\ req = NoReq /\ conf = NoConf

CallAgain ==
  /\ pc = "done" /\ callLog.n < MaxCalls
  /\ \E x \in CallInputs : Enter(x)
  /\ callLog' = [callLog EXCEPT !.n = @ + 1]
  /\ UNCHANGED <<app, auth, req, conf>>

CallAgainNoting ==
  /\ pc = "done" /\ callLog.n < MaxCalls
  /\ ~callLog.noted
  /\ \E x \in CallInputs : Enter(x)
  /\ callLog' = [n |-> callLog.n + 1, noted |-> TRUE, input |-> s, output |-> result]
  /\ UNCHANGED <<app, auth, req, conf>>

NextCalls == Next \/ CallAgain \/ CallAgainNoting

SpecCalls == InitCalls /\ [][NextCalls]_vars

----------------------------------------------------------------------------
(* The App model of internal/ui. app holds the fields of App that Update   *)
(* reads and writes; timeline and searchResults are NilList or a list of   *)
(* len tweets; input is the search text, "" or "q" for any text that is    *)
(* not empty. cmds is the bag of the commands in flight, each run by       *)
(* Bubble Tea in a goroutine of its own, with no order among their         *)
(* messages: at "start" a command has not run yet (byRefresh tells whether *)
(* the Refresh key started it), at "wait" its request is out and tok is    *)
(* the pagination token it read, at "send" its message msg waits to be     *)
(* handed to Update; the number of tweets it carries is drawn when Update  *)
(* reads it, and the fields of a command that nothing reads any more are   *)
(* cleared. panicked is set when updateContent indexes Data out of range.  *)
(* Left out are the fields that only View reads (ready, loading, err,      *)
(* showAll, the viewport) and profile, which is non-nil from the first     *)
(* profileMsg on and which updateContent only renders.                     *)

Nil == "nil"
viewTimeline == "viewTimeline"
viewProfile == "viewProfile"
viewSearch == "viewSearch"
PageTokens == {"", "t1"}
InputTexts == {"", "q"}
NilList == [set |-> FALSE, len |-> 0]
List(n) == [set |-> TRUE, len |-> n]

NewCmd(kind, byRefresh) ==
  [kind |-> kind, byRefresh |-> byRefresh, pc |-> "start", tok |-> "",
   msg |-> "none"]

(* NewApp, then Init, which returns fetchTimeline() *)
NewApp ==
  [mode |-> viewTimeline, searching |-> FALSE,
   timeline |-> NilList, searchResults |-> NilList,
   currentIndex |-> 0, nextToken |-> "", input |-> "",
   quit |-> FALSE, panicked |-> FALSE,
   cmds |-> SetToBag({NewCmd("timeline", FALSE)})]

InitApp ==
  /\ app = NewApp
  /\ HlIdle /\ callLog = NoCalls /\ auth = NoAuth /\ req = NoReq
  /\ conf = NoConf

Running == ~app.quit /\ ~app.panicked

(* after tea.Quit the program has ended and its App is gone *)
Exited == [NewApp EXCEPT !.quit = TRUE, !.cmds = EmptyBag]

(* the list that nextItem and updateContent look at in mode a.mode *)
ListOf(a) ==
  IF a.mode = viewTimeline THEN a.timeline
  ELSE IF a.mode = viewSearch THEN a.searchResults
  ELSE NilList

NextItemOffByOne(a) ==
  LET maxIndex == IF ListOf(a).set THEN ListOf(a).len - 1 ELSE 0
  IN IF a.currentIndex <= maxIndex
     THEN [a EXCEPT !.currentIndex = @ + 1] ELSE a

NextItem(a) ==
  LET maxIndex == IF ListOf(a).set THEN ListOf(a).len - 1 ELSE 0
  IN IF a.currentIndex < maxIndex
     THEN [a EXCEPT !.currentIndex = @ + 1] ELSE a

PrevItem(a) ==
  IF a.currentIndex > 0 THEN [a EXCEPT !.currentIndex = @ - 1] ELSE a

(* updateContent: Data[currentIndex] of a non-empty list panics when the   *)
(* index is out of range                                                   *)
UpdateContent(a) ==
  IF /\ ListOf(a).set
     /\ ListOf(a).len > 0
     /\ (a.currentIndex < 0 \/ a.currentIndex >= ListOf(a).len)
  THEN [a EXCEPT !.panicked = TRUE]
  ELSE a

Started(a, c) == [a EXCEPT !.cmds = @ (+) SetToBag({c})]
Stepped(a, c, d) == [a EXCEPT !.cmds = (@ (-) SetToBag({c})) (+) SetToBag({d})]
Received(a, c) == [a EXCEPT !.cmds = @ (-) SetToBag({c})]
InFlight == BagToSet(app.cmds)
CanStart == BagCardinality(app.cmds) < MaxInFlight

(* tea.WindowSizeMsg *)
WindowSize ==
  /\ Running
  /\ app' = UpdateContent(app)
  /\ UNCHANGED appRest

(* tea.KeyMsg while searching *)
SearchEnter ==
  /\ Running /\ app.searching
  /\ app.input # "" => CanStart
  /\ app' = IF app.input # ""
            THEN Started([app EXCEPT !.searching = FALSE], NewCmd("search", FALSE))
            ELSE [app EXCEPT !.searching = FALSE]
  /\ UNCHANGED appRest

SearchEscKeepsInput ==
  /\ Running /\ app.searching
  /\ app' = [app EXCEPT !.searching = FALSE]
  /\ UNCHANGED appRest

SearchEsc ==
  /\ Running /\ app.searching
  /\ app' = [app EXCEPT !.searching = FALSE, !.input = ""]
  /\ UNCHANGED appRest

(* any other key goes to the text input: it adds or deletes a character,  *)
(* or moves the cursor, and leaves the text empty or not                  *)
SearchType ==
  /\ Running /\ app.searching
  /\ \E text \in InputTexts :
       app' = [app EXCEPT !.input = text]
  /\ UNCHANGED appRest

(* tea.KeyMsg while not searching *)
KeyQuit ==
  /\ Running /\ ~app.searching
  /\ app' = Exited
  /\ UNCHANGED appRest

KeyNext ==
  /\ Running /\ ~app.searching
  /\ app' = UpdateContent(NextItem(app))
  /\ UNCHANGED appRest

KeyPrev ==
  /\ Running /\ ~app.searching
  /\ app' = UpdateContent(PrevItem(app))
  /\ UNCHANGED appRest

KeyRefresh ==
  /\ Running /\ ~app.searching
  /\ CanStart
  /\ app' = Started([app EXCEPT !.currentIndex = 0, !.nextToken = ""],
                    NewCmd("timeline", TRUE))
  /\ UNCHANGED appRest

KeySearch ==
  /\ Running /\ ~app.searching
  /\ app' = [app EXCEPT !.searching = TRUE]
  /\ UNCHANGED appRest

KeyTimeline ==
  /\ Running /\ ~app.searching
  /\ CanStart
  /\ app' = Started([app EXCEPT !.mode = viewTimeline, !.currentIndex = 0],
                    NewCmd("timeline", FALSE))
  /\ UNCHANGED appRest

(* Help, and the keys handed to the viewport, change none of these fields *)
KeyOther ==
  /\ Running /\ ~app.searching
  /\ app' = app
  /\ UNCHANGED appRest

(* the goroutine of command c runs: fetchTimeline reads a.nextToken *)
CmdStart(c) ==
  /\ Running
  /\ c.pc = "start"
  /\ app' = Stepped(app, c, [c EXCEPT !.pc = "wait",
                                     !.tok = IF c.kind = "timeline"
                                             THEN app.nextToken ELSE ""])
  /\ UNCHANGED appRest

(* the request of command c fails: errMsg *)
CmdFail(c) ==
  /\ Running
  /\ c.pc = "wait"
  /\ app' = Stepped(app, c, [c EXCEPT !.kind = "", !.pc = "send", !.byRefresh = FALSE,
                                     !.tok = "", !.msg = "errMsg"])
  /\ UNCHANGED appRest

(* the response of command c arrives; fetchTimeline writes a.nextToken     *)
(* when the response has a Meta (meta is then its NextToken)               *)
CmdRespond(c) ==
  /\ Running
  /\ c.pc = "wait"
  /\ \E meta \in PageTokens \cup {Nil} :
       LET sent == [c EXCEPT !.pc = "send", !.byRefresh = FALSE, !.tok = "",
                             !.msg = IF c.kind = "timeline"
                                     THEN "timelineMsg" ELSE "searchMsg"]
       IN app' = [Stepped(app, c, sent)
                    EXCEPT !.nextToken = IF c.kind = "timeline" /\ meta # Nil
                                         THEN meta ELSE @]
  /\ UNCHANGED appRest

(* Update receives the message of command c *)
RecvTimeline(c) ==
  /\ Running
  /\ c.pc = "send" /\ c.msg = "timelineMsg"
  /\ \E n \in 0..MaxItems :
       app' = UpdateContent(Received([app EXCEPT !.mode = viewTimeline,
                                                 !.timeline = List(n)], c))
  /\ UNCHANGED appRest

RecvSearch(c) ==
  /\ Running
  /\ c.pc = "send" /\ c.msg = "searchMsg"
  /\ \E n \in 0..MaxItems :
       app' = UpdateContent(Received([app EXCEPT !.mode = viewSearch,
                                                 !.searchResults = List(n)], c))
  /\ UNCHANGED appRest

RecvErr(c) ==
  /\ Running
  /\ c.pc = "send" /\ c.msg = "errMsg"
  /\ app' = Received(app, c)
  /\ UNCHANGED appRest

(* Update receives a profileMsg; no key starts fetchProfile, the message   *)
(* comes from outside (Program.Send)                                       *)
RecvProfile ==
  /\ Running
  /\ app' = UpdateContent([app EXCEPT !.mode = viewProfile])
  /\ UNCHANGED appRest

NextApp ==
  \/ WindowSize
  \/ SearchEnter
  \/ SearchEsc
  \/ SearchType
  \/ KeyQuit
  \/ KeyNext
  \/ KeyPrev
  \/ KeyRefresh
  \/ KeySearch
  \/ KeyTimeline
  \/ KeyOther
  \/ RecvProfile
  \/ \E c \in InFlight : CmdStart(c)
  \/ \E c \in InFlight : CmdFail(c)
  \/ \E c \in InFlight : CmdRespond(c)
  \/ \E c \in InFlight : RecvTimeline(c)
  \/ \E c \in InFlight : RecvSearch(c)
  \/ \E c \in InFlight : RecvErr(c)

SpecApp == InitApp /\ [][NextApp]_vars

----------------------------------------------------------------------------
(* Authenticator.GetToken of internal/api. auth.store is the token file    *)
(* (present is FALSE when Load fails), auth.now the clock; a token is its  *)
(* Expiry and whether its RefreshToken is non-empty. auth.ret is what the  *)
(* last call returned: err ("" for nil), the token, the token it loaded,   *)
(* whether it refreshed, and the time time.Now() gave it.                  *)

Times == 0..MaxTime
Token(e, r) == [present |-> TRUE, expiry |-> e, refresh |-> r]
NoToken == [present |-> FALSE, expiry |-> 0, refresh |-> FALSE]
Stores == {NoToken} \cup {Token(e, r) : e \in Times, r \in BOOLEAN}
NoRet == [err |-> "", token |-> NoToken, loaded |-> NoToken,
          refreshed |-> FALSE, at |-> 0]

InitAuth ==
  /\ auth \in [pc : {"ready"}, store : Stores, now : {0}, ret : {NoRet}]
  /\ HlIdle /\ callLog = NoCalls /\ app = NoApp /\ req = NoReq
  /\ conf = NoConf

(* token.Expiry.Before(time.Now()) && token.RefreshToken != "" *)
NeedsRefresh(tok, now) == tok.expiry < now /\ tok.refresh

Returned(err, tok, refreshed) ==
  [err |-> err, token |-> tok, loaded |-> auth.store,
   refreshed |-> refreshed, at |-> auth.now]

(* tokenStore.Load fails *)
LoadFails ==
  /\ auth.pc = "ready"
  /\ ~auth.store.present
  /\ auth' = [auth EXCEPT !.pc = "returned",
                         !.ret = Returned("no stored token", NoToken, FALSE)]
  /\ UNCHANGED authRest

(* the condition of the refresh is false: the loaded token is returned *)
ReturnStored ==
  /\ auth.pc = "ready"
  /\ auth.store.present
  /\ ~NeedsRefresh(auth.store, auth.now)
  /\ auth' = [auth EXCEPT !.pc = "returned",
                         !.ret = Returned("", auth.store, FALSE)]
  /\ UNCHANGED authRest

(* src.Token() fails *)
RefreshFails ==
  /\ auth.pc = "ready"
  /\ auth.store.present
  /\ NeedsRefresh(auth.store, auth.now)
  /\ auth' = [auth EXCEPT !.pc = "returned",
                         !.ret = Returned("failed to refresh token", NoToken, FALSE)]
  /\ UNCHANGED authRest

(* src.Token() gives a token that expires at e, tokenStore.Save fails *)
SaveFails ==
  /\ auth.pc = "ready"
  /\ auth.store.present
  /\ NeedsRefresh(auth.store, auth.now)
  /\ auth' = [auth EXCEPT !.pc = "returned",
                         !.ret = Returned("failed to save refreshed token", NoToken, TRUE)]
  /\ UNCHANGED authRest

(* src.Token() gives a token that expires at e, which is saved and returned *)
Refreshed ==
  /\ auth.pc = "ready"
  /\ auth.store.present
  /\ NeedsRefresh(auth.store, auth.now)
  /\ \E e \in Times : \E r \in BOOLEAN :
       /\ e >= auth.now
       /\ auth' = [auth EXCEPT !.pc = "returned", !.store = Token(e, r),
                              !.ret = Returned("", Token(e, r), TRUE)]
  /\ UNCHANGED authRest

(* the caller calls GetToken again *)
CallGetToken ==
  /\ auth.pc = "returned"
  /\ auth' = [auth EXCEPT !.pc = "ready"]
  /\ UNCHANGED authRest

(* the clock advances between calls *)
Tick ==
  /\ auth.pc = "ready"
  /\ auth.now < MaxTime
  /\ auth' = [auth EXCEPT !.now = @ + 1]
  /\ UNCHANGED authRest

NextAuth ==
  \/ LoadFails
  \/ ReturnStored
  \/ RefreshFails
  \/ SaveFails
  \/ Refreshed
  \/ CallGetToken
  \/ Tick

SpecAuth == InitAuth /\ [][NextAuth]_vars

----------------------------------------------------------------------------
(* Client.doRequest of internal/api. req.resp is the response of           *)
(* httpClient.Do: whether one was received, its status, its Retry-After    *)
(* header (a sequence of bytes, empty when absent) and whether io.ReadAll  *)
(* read its body. req.result is the caller's result value, req.err the     *)
(* error returned ("" for nil) and req.retryAfter the RetryAfter of a      *)
(* *RateLimitError.                                                        *)

StatusOK == 200
StatusTooManyRequests == 429
DefaultRetryAfter == 60
Statuses == {StatusOK, 404, StatusTooManyRequests, 500}
HeaderAlphabet == {"1", "2", "-", "+", "s"}
Headers == SeqsUpTo(HeaderAlphabet, MaxHeaderLen)

(* strconv.Atoi: an optional sign, then one or more decimal digits *)
Unsigned(h) == IF h # <<>> /\ h[1] \in {"+", "-"} THEN Tail(h) ELSE h
AtoiOk(h) ==
  /\ Unsigned(h) # <<>>
  /\ \A k \in DOMAIN Unsigned(h) : Unsigned(h)[k] \in Digits
DigitVal(c) ==
  CASE c = "0" -> 0 [] c = "1" -> 1 [] c = "2" -> 2 [] c = "3" -> 3
    [] c = "4" -> 4 [] c = "5" -> 5 [] c = "6" -> 6 [] c = "7" -> 7
    [] c = "8" -> 8 [] c = "9" -> 9
RECURSIVE DigitsVal(_)
DigitsVal(d) ==
  IF d = <<>> THEN 0
  ELSE DigitsVal(SubSeq(d, 1, Len(d) - 1)) * 10 + DigitVal(d[Len(d)])
AtoiVal(h) == IF h[1] = "-" THEN 0 - DigitsVal(Unsigned(h)) ELSE DigitsVal(Unsigned(h))

RetryAfterNoDefault(h) ==
  IF h # <<>> /\ AtoiOk(h) THEN AtoiVal(h) ELSE 0

(* retryAfter := 60; if ra != "" and Atoi(ra) succeeds, retryAfter = v *)
RetryAfter(h) ==
  IF h # <<>> /\ AtoiOk(h) THEN AtoiVal(h) ELSE DefaultRetryAfter

NoResp == [received |-> FALSE, status |-> 0, header |-> <<>>, bodyRead |-> FALSE]
Resp(st, h, read) == [received |-> TRUE, status |-> st, header |-> h, bodyRead |-> read]
NewReq == [pc |-> "ready", resp |-> NoResp, result |-> "untouched",
           err |-> "", retryAfter |-> 0]

InitRequest ==
  /\ req = NewReq
  /\ HlIdle /\ callLog = NoCalls /\ app = NoApp /\ auth = NoAuth
  /\ conf = NoConf

Returns(resp, err, retryAfter, res) ==
  req' = [pc |-> "returned", resp |-> resp, result |-> res,
          err |-> err, retryAfter |-> retryAfter]

(* http.NewRequestWithContext fails *)
CreateFails ==
  /\ req.pc = "ready"
  /\ Returns(NoResp, "failed to create request", 0, req.result)
  /\ UNCHANGED reqRest

(* httpClient.Do fails *)
TransportFails ==
  /\ req.pc = "ready"
  /\ Returns(NoResp, "request failed", 0, req.result)
  /\ UNCHANGED reqRest

(* io.ReadAll fails, whatever the status of the response *)
ReadFails ==
  /\ req.pc = "ready"
  /\ \E st \in Statuses : \E h \in Headers :
       Returns(Resp(st, h, FALSE), "failed to read response", 0, req.result)
  /\ UNCHANGED reqRest

RateLimited ==
  /\ req.pc = "ready"
  /\ \E h \in Headers :
       Returns(Resp(StatusTooManyRequests, h, TRUE), "RateLimitError",
              RetryAfter(h), req.result)
  /\ UNCHANGED reqRest

APIError ==
  /\ req.pc = "ready"
  /\ \E st \in Statuses \ {StatusTooManyRequests, StatusOK} : \E h \in Headers :
       Returns(Resp(st, h, TRUE), "API error", 0, req.result)
  /\ UNCHANGED reqRest

(* json.Unmarshal fails; it may have filled part of result by then *)
DecodeFails ==
  /\ req.pc = "ready"
  /\ \E h \in Headers : \E r \in {req.result, "partly decoded"} :
       Returns(Resp(StatusOK, h, TRUE), "failed to decode response", 0, r)
  /\ UNCHANGED reqRest

Decoded ==
  /\ req.pc = "ready"
  /\ \E h \in Headers :
       Returns(Resp(StatusOK, h, TRUE), "", 0, "decoded")
  /\ UNCHANGED reqRest

(* the next request, with a fresh result value *)
CallDoRequest ==
  /\ req.pc = "returned"
  /\ req' = NewReq
  /\ UNCHANGED reqRest

NextRequest ==
  \/ CreateFails
  \/ TransportFails
  \/ ReadFails
  \/ RateLimited
  \/ APIError
  \/ DecodeFails
  \/ Decoded
  \/ CallDoRequest

SpecRequest == InitRequest /\ [][NextRequest]_vars

----------------------------------------------------------------------------
(* main of main.go and the config file at DefaultConfigPath(). conf.file   *)
(* is what is at that path: "absent", a config the user wrote ("user"),    *)
(* the default config CreateDefault writes ("default"), a file that fails  *)
(* to parse ("garbage") or one that os.ReadFile cannot read                *)
(* ("unreadable"); conf.writable tells whether os.WriteFile to the path    *)
(* succeeds. A run of the program goes from "main" to "exited" (run()      *)
(* through "noconfig" or "loaded", after its config.Load); atStart is      *)
(* the file the run found, wrote whether it wrote the file, exit its exit  *)
(* code. Between runs the user may change the file.                        *)

Files == {"absent", "user", "default", "garbage", "unreadable"}
Commands == {"init", "auth", "help", "run"}

InitConfig ==
  /\ conf \in [pc : {"shell"}, file : Files, writable : BOOLEAN, cmd : {""},
               atStart : {"absent"}, wrote : {FALSE}, exit : {""}]
  /\ HlIdle /\ callLog = NoCalls /\ app = NoApp /\ auth = NoAuth /\ req = NoReq

(* os.Stat(path) succeeds *)
StatOk(f) == f # "absent"

(* config.Load: os.ReadFile fails, or yaml.Unmarshal fails *)
ConfigLoadFails(f) == f \in {"absent", "unreadable", "garbage"}

(* config.CreateDefault, then exit code ok, or exit code 1 when it fails *)
CreateDefault(c, ok) ==
  IF c.writable
  THEN [c EXCEPT !.pc = "exited", !.file = "default", !.wrote = TRUE, !.exit = ok]
  ELSE [c EXCEPT !.pc = "exited", !.exit = "1"]

(* the program is started with os.Args[1] = cmd, or with none ("run") *)
Exec ==
  /\ conf.pc \in {"shell", "exited"}
  /\ \E cmd \in Commands :
       conf' = [conf EXCEPT !.pc = "main", !.cmd = cmd, !.atStart = conf.file,
                            !.wrote = FALSE, !.exit = ""]
  /\ UNCHANGED confRest

(* xjson init *)
RunInitConfig ==
  /\ conf.pc = "main" /\ conf.cmd = "init"
  /\ conf' = IF StatOk(conf.file)
             THEN [conf EXCEPT !.pc = "exited", !.exit = "0"]
             ELSE CreateDefault(conf, "0")
  /\ UNCHANGED confRest

(* xjson auth: it loads the config and writes only the token store *)
RunAuthenticate ==
  /\ conf.pc = "main" /\ conf.cmd = "auth"
  /\ \E code \in IF ConfigLoadFails(conf.file) THEN {"1"} ELSE {"0", "1"} :
       conf' = [conf EXCEPT !.pc = "exited", !.exit = code]
  /\ UNCHANGED confRest

(* xjson help *)
RunPrintHelp ==
  /\ conf.pc = "main" /\ conf.cmd = "help"
  /\ conf' = [conf EXCEPT !.pc = "exited", !.exit = "0"]
  /\ UNCHANGED confRest

(* xjson: run() calls config.Load *)
RunLoad ==
  /\ conf.pc = "main" /\ conf.cmd = "run"
  /\ conf' = [conf EXCEPT !.pc = IF ConfigLoadFails(conf.file)
                                 THEN "noconfig" ELSE "loaded"]
  /\ UNCHANGED confRest

(* run() after "No config found. Creating one..." *)
RunCreates ==
  /\ conf.pc = "noconfig"
  /\ conf' = CreateDefault(conf, "0")
  /\ UNCHANGED confRest

(* xjson: run() with a config loaded; it ends without valid credentials,   *)
(* with an error of the program, or when the user quits the App            *)
RunLoaded ==
  /\ conf.pc = "loaded"
  /\ \E code \in {"0", "1"} :
       conf' = [conf EXCEPT !.pc = "exited", !.exit = code]
  /\ UNCHANGED confRest

(* between two runs the user edits, replaces, removes or chmods the file *)
UserEdits ==
  /\ conf.pc \in {"shell", "exited"}
  /\ \E f \in Files : \E w \in BOOLEAN :
       conf' = [pc |-> "shell", file |-> f, writable |-> w, cmd |-> "",
                atStart |-> "absent", wrote |-> FALSE, exit |-> ""]
  /\ UNCHANGED confRest

NextConfig ==
  \/ Exec
  \/ RunInitConfig
  \/ RunAuthenticate
  \/ RunPrintHelp
  \/ RunLoad
  \/ RunCreates
  \/ RunLoaded
  \/ UserEdits

SpecConfig == InitConfig /\ [][NextConfig]_vars

----------------------------------------------------------------------------
(* Reading the output back: what a terminal makes of the written bytes *)

(* the index of the 'm' that ends the SGR sequence starting at out[k] *)
RECURSIVE SgrEnd(_, _)
SgrEnd(out, k) ==
  IF k >= Len(out) \/ out[k] = "m" THEN k ELSE SgrEnd(out, k + 1)

(* out with every SGR sequence (ESC ... m) removed *)
RECURSIVE StripFrom(_, _)
StripFrom(out, k) ==
  IF k > Len(out) THEN <<>>
  ELSE IF out[k] = ESC THEN StripFrom(out, SgrEnd(out, k) + 1)
  ELSE <<out[k]>> \o StripFrom(out, k + 1)

Strip(out) == StripFrom(out, 1)

(* Marks(out)[p + 1] is the sequence of SGR sequences written between the  *)
(* visible bytes p - 1 and p (0-based); the last entry holds those written *)
(* after the last visible byte                                             *)
RECURSIVE MarksFrom(_, _, _, _)
MarksFrom(out, k, cur, acc) ==
  IF k > Len(out) THEN Append(acc, cur)
  ELSE IF out[k] = ESC
       THEN LET e == SgrEnd(out, k)
            IN MarksFrom(out, e + 1, Append(cur, SubSeq(out, k, e)), acc)
       ELSE MarksFrom(out, k + 1, <<>>, Append(acc, cur))

Marks(out) == MarksFrom(out, 1, <<>>, <<>>)

RECURSIVE Flatten(_)
Flatten(ss) == IF ss = <<>> THEN <<>> ELSE Head(ss) \o Flatten(Tail(ss))

(* every SGR sequence of out, in order *)
AllDirs(out) == Flatten(Marks(out))

IsColourSeq(d) == Len(d) > 7 /\ SubSeq(d, 1, 7) = <<ESC, "[", "3", "8", ";", "5", ";">>

(* the colour left active after the SGR sequences ds, <<>> when none is *)
RECURSIVE ActiveAfter(_, _)
ActiveAfter(ds, cur) ==
  IF ds = <<>> THEN cur
  ELSE ActiveAfter(Tail(ds), IF Head(ds) = ResetSeq THEN <<>>
                             ELSE IF IsColourSeq(Head(ds)) THEN Head(ds)
                             ELSE cur)

(* no colour is started while an earlier one is still active *)
RECURSIVE NoStartWhileOpen(_, _)
NoStartWhileOpen(ds, open) ==
  IF ds = <<>> THEN TRUE
  ELSE IF IsColourSeq(Head(ds)) THEN ~open /\ NoStartWhileOpen(Tail(ds), TRUE)
  ELSE IF Head(ds) = ResetSeq THEN NoStartWhileOpen(Tail(ds), FALSE)
  ELSE NoStartWhileOpen(Tail(ds), open)

Done == pc = "done"

(* Below, m is Marks(result). Dirs(m, p) are the SGR sequences written     *)
(* just before the visible byte p (0-based); Dirs(m, Len(s)) are those     *)
(* written after the last byte                                             *)
Dirs(m, p) == m[p + 1]

(* a string token was opened at p: a string or key colour, then the quote *)
OpenAt(m, p) ==
  /\ At(p) = Quote
  /\ Dirs(m, p) # <<>>
  /\ Dirs(m, p)[Len(Dirs(m, p))] \in {KeyColour, StringColour}

OpenColour(m, p) == Dirs(m, p)[Len(Dirs(m, p))]

(* a string token was closed at p: the quote, then a reset *)
CloseAt(m, p) ==
  /\ At(p) = Quote
  /\ Dirs(m, p + 1) # <<>>
  /\ Head(Dirs(m, p + 1)) = ResetSeq

Positions == 0..(Len(s) - 1)

----------------------------------------------------------------------------
(* C1: Losslessness. Removing every inserted SGR sequence from what        *)
(* highlightJSON has written yields exactly the input bytes consumed so    *)
(* far, in input order; at return it yields exactly s.                     *)
C1_Lossless ==
  /\ i <= Len(s)
  /\ Strip(result) = SubSeq(s, 1, i)
  /\ Done => Strip(result) = s

(* a run in which the key lookahead, the number sub-scan and the literal   *)
(* sub-scan have all acted                                                 *)
C1_Witness ==
  /\ Done
  /\ s = ExSpacedKey
  /\ KeyColour \in {AllDirs(result)[k] : k \in 1..Len(AllDirs(result))}
  /\ NumberColour \in {AllDirs(result)[k] : k \in 1..Len(AllDirs(result))}
  /\ TrueColour \in {AllDirs(result)[k] : k \in 1..Len(AllDirs(result))}

(* C2: Coverage invariant. No colour is started while a previously started *)
(* styled region is still open, and styled plus unstyled bytes cover the   *)
(* input exactly once.                                                     *)
C2_Coverage ==
  /\ NoStartWhileOpen(AllDirs(result), FALSE)
  /\ Strip(result) = SubSeq(s, 1, i)

----------------------------------------------------------------------------
(* Tokens of the input, as the claims speak of them *)

Min(S) == CHOOSE x \in S : \A y \in S : x <= y
Max(S) == CHOOSE x \in S : \A y \in S : x >= y

(* the next quote after p that is not preceded by a backslash; Len(s) when *)
(* there is none                                                           *)
ClosingQuote(p) ==
  LET qs == {q \in (p + 1)..(Len(s) - 1) : At(q) = Quote /\ At(q - 1) # Backslash}
  IN IF qs = {} THEN Len(s) ELSE Min(qs)

(* the number of consecutive backslashes right before index q *)
RECURSIVE BackslashRun(_)
BackslashRun(q) ==
  IF q > 0 /\ At(q - 1) = Backslash THEN 1 + BackslashRun(q - 1) ELSE 0

(* the next quote after p that no backslash escapes, a backslash escaping  *)
(* exactly the byte after it; Len(s) when there is none                    *)
UnescapedQuote(p) ==
  LET qs == {q \in (p + 1)..(Len(s) - 1) : At(q) = Quote /\ BackslashRun(q) % 2 = 0}
  IN IF qs = {} THEN Len(s) ELSE Min(qs)

(* the first byte after q that is not a space, tab or newline is ':' *)
ColonFollows(q) ==
  LET ks == {k \in (q + 1)..(Len(s) - 1) : At(k) \notin {" ", "\t", "\n"}}
  IN ks # {} /\ At(Min(ks)) = ":"

(* the token opened at p holds a quote right after a backslash *)
HasEscapedQuote(p) ==
  \E r \in (p + 1)..(ClosingQuote(p) - 1) : At(r) = Quote /\ At(r - 1) = Backslash

(* byte p lies inside a string token of the output: after an opening quote *)
(* that no closing quote has followed yet                                  *)
InStr(m, p) ==
  \E o \in 0..(p - 1) : OpenAt(m, o) /\ \A r \in o..(p - 1) : ~CloseAt(m, r)

(* the last byte before p that is not a space, tab or newline; -1 if none *)
PrevNonSpace(p) ==
  LET rs == {r \in 0..(p - 1) : At(r) \notin {" ", "\t", "\n"}}
  IN IF rs = {} THEN 0 - 1 ELSE Max(rs)

(* the last index of the maximal run of number bytes that starts at p *)
NumberBytes == {"0", "1", "2", "3", "4", "5", "6", "7", "8", "9",
                ".", "e", "E", "+", "-"}

RunEnd(p) ==
  Max({e \in p..(Len(s) - 1) : \A r \in (p + 1)..e : At(r) \in NumberBytes})

EndsWith(ds, d) == ds # <<>> /\ ds[Len(ds)] = d

----------------------------------------------------------------------------
(* C3: Key/value disambiguation. Every string token the scanner opens and  *)
(* closes is coloured as Key if and only if the first byte after its       *)
(* closing quote, skipping spaces, tabs and newlines, is ':'; otherwise it *)
(* is coloured as StringValue.                                             *)
C3_KeyIffColon ==
  LET m == Marks(result) IN
  Done => \A p \in Positions :
            (OpenAt(m, p) /\ ClosingQuote(p) < Len(s))
              => /\ CloseAt(m, ClosingQuote(p))
                 /\ OpenColour(m, p) = KeyColour <=> ColonFollows(ClosingQuote(p))
                 /\ OpenColour(m, p) = StringColour <=> ~ColonFollows(ClosingQuote(p))

(* C4: A backslash escapes exactly the next byte: inside a string, a quote *)
(* preceded by an even number (>= 2) of consecutive backslashes closes the *)
(* string, and the reset is written right after it.                        *)
C4_EvenBackslashesClose ==
  LET m == Marks(result) IN
  Done => \A p \in Positions :
            (/\ OpenAt(m, p)
             /\ UnescapedQuote(p) < Len(s)
             /\ BackslashRun(UnescapedQuote(p)) >= 2)
              => CloseAt(m, UnescapedQuote(p))

(* C5: The key lookahead uses the real closing quote: a string token that  *)
(* holds an escaped quote and whose closing quote is followed by optional  *)
(* whitespace and ':' is coloured as Key.                                  *)
C5_EscapedQuoteKey ==
  LET m == Marks(result) IN
  Done => \A p \in Positions :
            (/\ OpenAt(m, p)
             /\ HasEscapedQuote(p)
             /\ ClosingQuote(p) < Len(s)
             /\ ColonFollows(ClosingQuote(p)))
              => OpenColour(m, p) = KeyColour

(* C6: Escaped quote handling. A string token that holds a quote right     *)
(* after a backslash is one region: it is closed at the next quote not     *)
(* preceded by a backslash and nowhere before, no string or key colour is  *)
(* started inside it, and no reset follows the escaped quote. For "a\"b"   *)
(* the output is one StringValue region over the whole input.              *)
C6_EscapedQuoteOneRegion ==
  LET m == Marks(result) IN
  Done =>
    /\ \A p \in Positions :
         (OpenAt(m, p) /\ HasEscapedQuote(p))
           => /\ \A r \in (p + 1)..(ClosingQuote(p) - 1) : ~CloseAt(m, r) /\ ~OpenAt(m, r)
              /\ \A r \in (p + 1)..(ClosingQuote(p) - 1) :
                   (At(r) = Quote /\ At(r - 1) = Backslash) => Dirs(m, r) = <<>>
              /\ ClosingQuote(p) < Len(s)
                   => CloseAt(m, ClosingQuote(p)) /\ ~OpenAt(m, ClosingQuote(p))
              /\ ClosingQuote(p) = Len(s) => inString
    /\ s = ExEscaped => result = StringColour \o ExEscaped \o ResetSeq

(* the scan of "a\"b" has returned, and the escaped quote was met inside   *)
(* an open string token                                                    *)
C6_Witness ==
  LET m == Marks(result) IN
  /\ Done
  /\ s = ExEscaped
  /\ OpenAt(m, 0) /\ HasEscapedQuote(0) /\ ClosingQuote(0) = 5
  /\ CloseAt(m, 5)

(* C7: Unterminated string. A string token that is opened and has no       *)
(* unescaped closing quote before the end of the input is coloured as      *)
(* StringValue, never Key, and extends to the end of the input.            *)
C7_UnterminatedIsStringValue ==
  LET m == Marks(result) IN
  Done => \A p \in Positions :
            (OpenAt(m, p) /\ ClosingQuote(p) = Len(s))
              => /\ OpenColour(m, p) = StringColour
                 /\ \A r \in p..(Len(s) - 1) : ~CloseAt(m, r)
                 /\ inString

(* C8: Every styled region is terminated by a reset: when highlightJSON    *)
(* returns, no colour is left active.                                      *)
C8_ResetAfterEveryRegion ==
  Done => ActiveAfter(AllDirs(result), <<>>) = <<>>

(* C9: Number at the start of the input. A number token that begins the    *)
(* input is one Number region over the maximal run of number bytes.        *)
C9_NumberAtStart ==
  LET m == Marks(result) IN
  (Done /\ Len(s) > 0 /\ At(0) \in NumStart)
    => /\ Dirs(m, 0) = <<NumberColour>>
       /\ \A r \in 1..RunEnd(0) : Dirs(m, r) = <<>>
       /\ Dirs(m, RunEnd(0) + 1) # <<>> /\ Head(Dirs(m, RunEnd(0) + 1)) = ResetSeq

(* C10: Numbers in arrays. Outside a string, a digit, '-' or '.' that is   *)
(* the first non-whitespace byte after '[' or ',' starts a Number region.  *)
C10_NumberInArray ==
  LET m == Marks(result) IN
  Done => \A p \in Positions :
            (/\ At(p) \in NumStart
             /\ ~InStr(m, p)
             /\ PrevNonSpace(p) >= 0
             /\ At(PrevNonSpace(p)) \in {"[", ","}
             /\ ~InStr(m, PrevNonSpace(p)))
              => EndsWith(Dirs(m, p), NumberColour)

----------------------------------------------------------------------------
(* C11: Structural characters are only classified outside a string: for a  *)
(* '{', '}', '[', ']', ':' or ',' between the opening and the closing      *)
(* quote of a string token no SGR sequence is written before or after it.  *)
C11_StructuralOnlyOutsideString ==
  LET m == Marks(result) IN
  Done => \A p \in Positions :
            (InStr(m, p) /\ At(p) \in {"{", "}", "[", "]", ":", ","})
              => Dirs(m, p) = <<>> /\ Dirs(m, p + 1) = <<>>

(* the literal words with their colours *)
Literals == {<<WordTrue, TrueColour>>, <<WordFalse, FalseColour>>,
             <<WordNull, NullColour>>}

LiteralAt(p, W) == p + Len(W) <= Len(s) /\ Slice(p, p + Len(W)) = W

(* the bytes W at p are one region of colour C: C right before the first   *)
(* byte, nothing written between the bytes, the reset right after the last *)
RegionOf(m, p, W, C) ==
  /\ EndsWith(Dirs(m, p), C)
  /\ \A r \in (p + 1)..(p + Len(W) - 1) : Dirs(m, r) = <<>>
  /\ Dirs(m, p + Len(W)) # <<>> /\ Head(Dirs(m, p + Len(W))) = ResetSeq

(* C12: Literal words. Outside a string, wherever the exact text true,     *)
(* false or null begins (also when it ends at the end of the input or more *)
(* letters follow), exactly those bytes are one region of the literal's    *)
(* colour; inside a string no literal colour is started. For               *)
(* [true,false,null] the three literals are styled and only the brackets   *)
(* and the two commas are left between them.                               *)
C12_LiteralWords ==
  LET m == Marks(result) IN
  Done =>
    /\ \A p \in Positions : \A L \in Literals :
         /\ (LiteralAt(p, L[1]) /\ ~InStr(m, p)) => RegionOf(m, p, L[1], L[2])
         /\ InStr(m, p) => ~EndsWith(Dirs(m, p), L[2])
    /\ s = ExLiterals =>
         result = BracketColour \o BoldSeq \o <<"[">> \o ResetSeq
                    \o TrueColour \o WordTrue \o ResetSeq \o <<",">>
                    \o FalseColour \o WordFalse \o ResetSeq \o <<",">>
                    \o NullColour \o WordNull \o ResetSeq
                    \o BracketColour \o BoldSeq \o <<"]">> \o ResetSeq

(* a literal that ends exactly at the end of the input has been styled *)
C12_Witness ==
  LET m == Marks(result) IN
  /\ Done
  /\ s = <<",">> \o WordNull \o WordTrue
  /\ RegionOf(m, 1, WordNull, NullColour)
  /\ RegionOf(m, 5, WordTrue, TrueColour)

(* the colour active when the visible byte p is written, <<>> when none *)
ActiveAt(m, p) ==
  ActiveAfter(Flatten(SubSeq(m, 1, p + 1)), <<>>)

(* n bytes at p are a proper prefix of the literal W, and W is not at p *)
ProperPrefixAt(p, W, n) ==
  /\ n >= 1 /\ n < Len(W) /\ p + n <= Len(s)
  /\ Slice(p, p + n) = SubSeq(W, 1, n)
  /\ ~LiteralAt(p, W)

HeadTruncated ==
  BraceColour \o BoldSeq \o <<"{">> \o ResetSeq
    \o KeyColour \o <<Quote, "a", Quote>> \o ResetSeq
    \o ColonColour \o <<":">> \o ResetSeq \o <<" ">>

TailTruncated == BraceColour \o BoldSeq \o <<"}">> \o ResetSeq

(* C14: Malformed-literal degradation. Outside a string, the bytes of a    *)
(* run that is only a proper prefix of true, false or null are written     *)
(* with no colour active and no SGR sequence between them; in {"a": tru}   *)
(* the key, the colon and the closing brace are written exactly as in      *)
(* {"a": true}.                                                            *)
C14_TruncatedLiteralPlain ==
  LET m == Marks(result) IN
  Done =>
    /\ \A p \in Positions : \A L \in Literals : \A n \in 1..(Len(L[1]) - 1) :
         (ProperPrefixAt(p, L[1], n) /\ ~InStr(m, p))
           => /\ \A r \in p..(p + n - 1) : ActiveAt(m, r) = <<>>
              /\ \A r \in (p + 1)..(p + n - 1) : Dirs(m, r) = <<>>
              /\ Dirs(m, p + 1) = <<>> \/ Head(Dirs(m, p + 1)) # ResetSeq
    /\ s = ExTruncated
         => result = HeadTruncated \o <<"t", "r", "u">> \o TailTruncated
    /\ s = ExWellFormed
         => result = HeadTruncated \o TrueColour \o WordTrue \o ResetSeq
                       \o TailTruncated

C14_Witness ==
  LET m == Marks(result) IN
  /\ Done
  /\ s = ExTruncated
  /\ ProperPrefixAt(6, WordTrue, 3) /\ ~InStr(m, 6)
  /\ ActiveAt(m, 6) = <<>>

(* a value token starts at v: a Number or literal region, or a string *)
ValueStart(m, v) ==
  \/ EndsWith(Dirs(m, v), NumberColour)
  \/ \E L \in Literals : EndsWith(Dirs(m, v), L[2])
  \/ OpenAt(m, v)

(* the last byte of the value token that starts at v; Len(s) for a string  *)
(* that is never closed                                                    *)
ValueEnd(m, v) ==
  IF EndsWith(Dirs(m, v), NumberColour) THEN RunEnd(v)
  ELSE IF OpenAt(m, v) THEN ClosingQuote(v)
  ELSE IF EndsWith(Dirs(m, v), FalseColour) THEN v + 4
  ELSE v + 3

(* p comes after a consumed value with no ':' outside a string in between *)
FollowsValue(m, p) ==
  \E v \in 0..(p - 1) :
    /\ ValueStart(m, v)
    /\ ValueEnd(m, v) < p
    /\ \A c \in (ValueEnd(m, v) + 1)..(p - 1) : At(c) = ":" => InStr(m, c)

(* byte p lies in a Number region *)
InNumber(m, p) ==
  \E n \in 0..p : EndsWith(Dirs(m, n), NumberColour) /\ p <= RunEnd(n)

(* C15: No number inside a string or plain run: a digit, '-' or '.' inside *)
(* a string token, or after an already consumed value (number, literal or  *)
(* string) with no ':' in between, is never styled as a Number.            *)
C15_NoNumberInStringOrAfterValue ==
  LET m == Marks(result) IN
  Done => \A p \in Positions :
            (At(p) \in NumStart /\ (InStr(m, p) \/ FollowsValue(m, p)))
              => ~InNumber(m, p)

(* a digit after a consumed number or string was written unstyled *)
C15_Witness ==
  LET m == Marks(result) IN
  /\ Done
  /\ \/ s = <<":", "1", " ", "1">>
     \/ s = <<":", Quote, "1", Quote, "1">>
  /\ InNumber(m, 1) \/ InStr(m, 2)
  /\ FollowsValue(m, Len(s) - 1)
  /\ ~InNumber(m, Len(s) - 1)

(* C16: Greedy number token. A digit, '-' or '.' outside a string whose    *)
(* previous non-whitespace byte is an unquoted ':' starts a Number, and    *)
(* every Number that starts extends over the maximal following run of      *)
(* bytes from 0-9 . e E + - as one region with one colour and one reset.   *)
C16_GreedyNumber ==
  LET m == Marks(result) IN
  Done =>
    /\ \A p \in Positions :
         /\ (/\ At(p) \in NumStart /\ ~InStr(m, p)
             /\ PrevNonSpace(p) >= 0
             /\ At(PrevNonSpace(p)) = ":" /\ ~InStr(m, PrevNonSpace(p)))
              => EndsWith(Dirs(m, p), NumberColour)
         /\ EndsWith(Dirs(m, p), NumberColour)
              => RegionOf(m, p, Slice(p, RunEnd(p) + 1), NumberColour)
    /\ s = ExMalformedNumber
         => result = ColonColour \o <<":">> \o ResetSeq \o NumberColour
                       \o <<"1", "-", "2", "+", ".", "e">> \o ResetSeq

C16_Witness ==
  LET m == Marks(result) IN
  /\ Done
  /\ s = ExMalformedNumber
  /\ EndsWith(Dirs(m, 1), NumberColour) /\ RunEnd(1) = 6

----------------------------------------------------------------------------
(* C13: The scanner never fails. In every iteration every index read       *)
(* (s[i], s[i-1], s[i+1], s[j], s[k]) lies in [0, len(s)) and every slice  *)
(* s[a:b] has 0 <= a <= b <= len(s); the cursor never passes len(s); and   *)
(* while the loop runs some case applies, so that the scan goes on until   *)
(* it returns.                                                             *)
C13_NeverFails ==
  /\ i >= 0 /\ i <= Len(s)
  /\ InLoop => /\ \A k \in IndexReads : k >= 0 /\ k < Len(s)
               /\ \A sl \in SliceReads : 0 <= sl[1] /\ sl[1] <= sl[2] /\ sl[2] <= Len(s)
  /\ pc = "loop" => ENABLED Next

(* the inputs the claim names have been scanned to the end: one ending in  *)
(* a backslash, one ending in a quote, one ending in a prefix of a literal *)
C13_Witness ==
  /\ Done
  /\ i = Len(s)
  /\ s \in {<<Quote, Backslash>>, <<":", "1", Quote>>, <<"[", "t", "r", "u">>}

----------------------------------------------------------------------------
(* C17: Purity. highlightJSON keeps no state between calls: a call on an   *)
(* input returns the same output as any earlier call on the same input,    *)
(* whatever was called before and in between.                              *)
C17_Pure ==
  (Done /\ callLog.noted /\ s = callLog.input) => result = callLog.output

(* a call on ":1" was noted and a later call on ":1", the third call of    *)
(* the run, has returned                                                   *)
C17_Witness ==
  /\ Done
  /\ callLog.n = 3 /\ callLog.noted
  /\ s = <<":", "1">> /\ callLog.input = s
  /\ result = callLog.output

----------------------------------------------------------------------------
(* Item navigation                                                         *)

(* the number of items of the list the current mode shows, 0 if none *)
ShownLen ==
  IF app.mode = viewTimeline /\ app.timeline.set THEN app.timeline.len
  ELSE IF app.mode = viewSearch /\ app.searchResults.set THEN app.searchResults.len
  ELSE 0

SameModeAndData ==
  /\ app'.mode = app.mode
  /\ app'.timeline = app.timeline
  /\ app'.searchResults = app.searchResults

(* C18: outside search-input mode the Next key adds exactly 1 to           *)
(* currentIndex when it is below the last index of the list the current    *)
(* mode shows and leaves it unchanged otherwise; the Prev key subtracts    *)
(* exactly 1 when it is above 0 and leaves it unchanged otherwise; neither *)
(* key changes the mode or the loaded data.                                *)
C18_ItemNavigation ==
  [][/\ KeyNext =>
          /\ app'.currentIndex = IF app.currentIndex < ShownLen - 1
                                 THEN app.currentIndex + 1
                                 ELSE app.currentIndex
          /\ SameModeAndData
     /\ KeyPrev =>
          /\ app'.currentIndex = IF app.currentIndex > 0
                                 THEN app.currentIndex - 1
                                 ELSE app.currentIndex
          /\ SameModeAndData]_vars

(* 'n' has moved the timeline from its first to its second item *)
C18_Witness ==
  /\ ~app.searching /\ ~app.panicked
  /\ app.mode = viewTimeline
  /\ app.timeline = List(2)
  /\ app.currentIndex = 1

----------------------------------------------------------------------------
(* GetToken                                                                *)

(* C19: whenever GetToken returns without error the returned token is not  *)
(* expired, and a stored token that was expired has been refreshed and the *)
(* refreshed token saved to the store, or an error is returned.            *)
C19_ReturnsValidToken ==
  auth.pc = "returned" =>
    /\ auth.ret.err = "" => ~(auth.ret.token.expiry < auth.ret.at)
    /\ (auth.ret.loaded.present /\ auth.ret.loaded.expiry < auth.ret.at) =>
         \/ auth.ret.err # ""
         \/ auth.ret.refreshed /\ auth.store = auth.ret.token

----------------------------------------------------------------------------
(* Rate limit handling                                                     *)

IsRateLimitError == req.err = "RateLimitError"

(* RetryAfter is the header's integer, 60 when it is none; any status      *)
(* other than 200 gives an error and leaves the result value as it was     *)
RetryAfterAndResult ==
  /\ IsRateLimitError =>
       req.retryAfter = IF AtoiOk(req.resp.header)
                        THEN AtoiVal(req.resp.header) ELSE 60
  /\ (req.resp.received /\ req.resp.status # 200) =>
       req.err # "" /\ req.result = "untouched"

(* C20 as stated: doRequest returns a *RateLimitError exactly when the     *)
(* response status is 429, with RetryAfter the Retry-After header when it  *)
(* parses as an integer and 60 otherwise; for any status other than 200 it *)
(* returns an error and leaves the result value unchanged.                 *)
C20_RateLimitExactlyOn429 ==
  req.pc = "returned" =>
    /\ IsRateLimitError <=> (req.resp.received /\ req.resp.status = 429)
    /\ RetryAfterAndResult

(* C20, amended: doRequest returns a *RateLimitError exactly when the      *)
(* response status is 429 and the body of the response was read without    *)
(* error (a failed read returns a plain error whatever the status); the    *)
(* rest as stated.                                                         *)
C20_RateLimitWhenBodyRead ==
  req.pc = "returned" =>
    /\ IsRateLimitError <=>
         (req.resp.received /\ req.resp.bodyRead /\ req.resp.status = 429)
    /\ RetryAfterAndResult

(* a 429 with Retry-After: 12 has returned a *RateLimitError of 12 *)
C20_Witness ==
  /\ req.pc = "returned"
  /\ IsRateLimitError
  /\ req.resp.status = 429
  /\ req.resp.header = <<"1", "2">>
  /\ req.retryAfter = 12

----------------------------------------------------------------------------
(* Index in range                                                          *)

(* C21: after any sequence of key presses and fetch-result messages, when  *)
(* the current mode is timeline or search and its list is not empty,       *)
(* 0 <= currentIndex < len(Data) of that list, so that updateContent's     *)
(* Data[currentIndex] never indexes out of range. (Every step that changes *)
(* the mode, a list or the index ends in updateContent or sets the index   *)
(* to 0, so a state that breaks this is one where updateContent panicked.) *)
C21_IndexInRange ==
  /\ ~app.panicked
  /\ ShownLen > 0 => (0 <= app.currentIndex /\ app.currentIndex < ShownLen)

----------------------------------------------------------------------------
(* Refresh requests the first page                                         *)

(* C22: a timeline fetch command started by the Refresh key has read an    *)
(* empty pagination token when its request is out, under every             *)
(* interleaving with the fetch commands that were in flight before it.     *)
C22_RefreshReadsEmptyToken ==
  \A c \in BagToSet(app.cmds) :
    (c.byRefresh /\ c.pc = "wait") => c.tok = ""

----------------------------------------------------------------------------
(* Search-input mode                                                       *)

(* a key press, whatever the key *)
KeyPress ==
  \/ SearchEnter \/ SearchEsc \/ SearchType
  \/ KeyQuit \/ KeyNext \/ KeyPrev \/ KeyRefresh \/ KeySearch \/ KeyTimeline
  \/ KeyOther

SearchFetchStarted ==
  \E c \in BagToSet(app'.cmds) :
    /\ c.kind = "search" /\ c.pc = "start"
    /\ app'.cmds = app.cmds (+) SetToBag({c})

OnlyChanged(fields) ==
  \A f \in DOMAIN app : f \notin fields => app'[f] = app[f]

(* C23: while searching is true no key press quits the app, changes        *)
(* currentIndex or the mode, or starts a timeline fetch; Enter leaves      *)
(* search mode and starts a search fetch when the query is not empty and   *)
(* nothing when it is empty, Esc leaves search mode and clears the input,  *)
(* and every other key stays in search mode and only edits the input.      *)
C23_SearchCapturesKeyboard ==
  [][(app.searching /\ KeyPress) =>
       /\ ~app'.quit
       /\ app'.currentIndex = app.currentIndex
       /\ app'.mode = app.mode
       /\ \A c \in BagToSet(app'.cmds) :
            c.kind = "timeline" => CopiesIn(c, app'.cmds) = CopiesIn(c, app.cmds)
       /\ SearchEnter =>
            /\ ~app'.searching
            /\ IF app.input # ""
               THEN SearchFetchStarted /\ OnlyChanged({"searching", "cmds"})
               ELSE OnlyChanged({"searching"})
       /\ SearchEsc =>
            /\ ~app'.searching /\ app'.input = ""
            /\ OnlyChanged({"searching", "input"})
       /\ ~(SearchEnter \/ SearchEsc) =>
            /\ app'.searching
            /\ OnlyChanged({"input"})]_vars

(* Enter in the search input, with a query typed, has started a search *)
C23_Witness ==
  /\ ~app.searching
  /\ app.input = "q"
  /\ \E c \in BagToSet(app.cmds) : c.kind = "search" /\ c.pc = "start"

----------------------------------------------------------------------------
(* The config file at startup                                              *)

(* C24: a run of the program writes the default config only when it found  *)
(* no config file at the default path, in xjson init and in the plain run; *)
(* a file that was there, one that cannot be read or parsed included, is   *)
(* what is there when the run ends.                                        *)
C24_ExistingConfigKept ==
  conf.pc = "exited" =>
    /\ conf.wrote => conf.atStart = "absent"
    /\ conf.atStart # "absent" => conf.file = conf.atStart

====
